---- MODULE Spec2Model ----
(***************************************************************************)
(* Model of streamlit_app.py: the player-prop pipeline                     *)
(*   bayesian_update -> calculate_projected_points ->                      *)
(*   monte_carlo_simulation -> apply_floor_adjustment -> prob_over_line -> *)
(*   calculate_ev -> edge_percentage -> get_bet_recommendation.            *)
(*                                                                         *)
(* Numbers.  Python floats are binary floating-point numbers.  A number is *)
(* modelled as an exact rational [n, d] in lowest terms, and every         *)
(* arithmetic operation of the source is the exact operation followed by   *)
(* rounding to the nearest number with Precision significant bits, ties to *)
(* even, as IEEE-754 does.  Precision stands for the 53 bits of a double;  *)
(* the exponent range is not limited (no overflow, no underflow).          *)
(***************************************************************************)
EXTENDS Integers, Sequences, FiniteSets, TLC

\* Significant bits of the modelled floating-point format (53 in a double).
Precision == 8

\* Largest number of Monte Carlo draws of one run (the slider's 1000..20000,
\* scaled down so that every sample set can be enumerated).
MaxSims == 2

---------------------------------------------------------------------------
(* Exact rationals *)

Abs(x) == IF x < 0 THEN -x ELSE x

RECURSIVE GCD(_, _)
GCD(a, b) == IF b = 0 THEN a ELSE GCD(b, a % b)

RECURSIVE Pow2(_)
Pow2(k) == IF k = 0 THEN 1 ELSE 2 * Pow2(k - 1)

\* The rational n/d (d # 0) in lowest terms with a positive denominator.
Rat(n, d) ==
  LET g == GCD(Abs(n), Abs(d))
      s == IF d < 0 THEN -1 ELSE 1
  IN  [n |-> s * ((IF n < 0 THEN -1 ELSE 1) * (Abs(n) \div g)), d |-> Abs(d) \div g]

Int2R(k) == [n |-> k, d |-> 1]
Zero == Int2R(0)
One == Int2R(1)

\* Python's None: a value distinct from every number.
None == [n |-> 0, d |-> 0]

RAdd(a, b) == Rat(a.n * b.d + b.n * a.d, a.d * b.d)
RNeg(a) == [n |-> -a.n, d |-> a.d]
RSub(a, b) == RAdd(a, RNeg(b))
RMul(a, b) == Rat(a.n * b.n, a.d * b.d)
RDiv(a, b) == Rat(a.n * b.d, a.d * b.n)
RLt(a, b) == a.n * b.d < b.n * a.d
RLe(a, b) == a.n * b.d <= b.n * a.d
RGt(a, b) == RLt(b, a)
RGe(a, b) == RLe(b, a)
RAbs(a) == [n |-> Abs(a.n), d |-> a.d]

---------------------------------------------------------------------------
(* Floating point: rounding to Precision significant bits, ties to even *)

\* The number of times 2 divides k (k > 0).
RECURSIVE TwoAdic(_)
TwoAdic(k) == IF k % 2 = 1 THEN 0 ELSE 1 + TwoAdic(k \div 2)

\* n/d (n, d > 0) rounded: n/d is first scaled by a power of two into
\* [2^(Precision-1), 2^Precision), then rounded to an integer, ties to even.
\* up and dn are the powers of two multiplied into n and into d on the way.
RECURSIVE RoundScaled(_, _, _, _)
RoundScaled(n, d, up, dn) ==
  IF n \div Pow2(Precision) >= d THEN RoundScaled(n, 2 * d, up, 2 * dn)
  ELSE IF n \div Pow2(Precision - 1) < d THEN RoundScaled(2 * n, d, 2 * up, dn)
  ELSE LET q == n \div d
           r == n % d
           q1 == IF 2 * r > d \/ (2 * r = d /\ q % 2 = 1) THEN q + 1 ELSE q
       IN  Rat(q1 * dn, up)

\* The float nearest to the rational x.  Powers of two are taken out of the
\* numerator and the denominator first: scaling by them commutes with rounding.
Fl(x) ==
  IF x.n = 0 THEN Zero
  ELSE LET u == TwoAdic(Abs(x.n))
           t == TwoAdic(x.d)
           r == RoundScaled(Abs(x.n) \div Pow2(u), x.d \div Pow2(t), 1, 1)
           v == Rat(r.n * Pow2(u), r.d * Pow2(t))
       IN  IF x.n < 0 THEN RNeg(v) ELSE v

\* Whether the rational x is a float, and the float a literal or an input denotes.
IsFloat(x) == Fl(x) = x
F(n, d) == Fl(Rat(n, d))

FAdd(a, b) == Fl(RAdd(a, b))
FSub(a, b) == Fl(RSub(a, b))
FMul(a, b) == Fl(RMul(a, b))
FDiv(a, b) == Fl(RDiv(a, b))

\* floor(sqrt(k)) by bisection, lo*lo <= k < hi*hi.
RECURSIVE ISqrtIn(_, _, _)
ISqrtIn(k, lo, hi) ==
  IF hi - lo <= 1 THEN lo
  ELSE LET mid == (lo + hi) \div 2
       IN  IF mid * mid <= k THEN ISqrtIn(k, mid, hi) ELSE ISqrtIn(k, lo, mid)

\* k (k > 0) scaled by powers of four into [4^Precision, 4^(Precision+1)).
\* Returns the scaled number and the power of two its square root is scaled by.
RECURSIVE ScaleFour(_, _)
ScaleFour(k, by) ==
  IF k >= Pow2(2 * Precision) THEN [k |-> k, by |-> by]
  ELSE ScaleFour(4 * k, 2 * by)

\* The correctly rounded square root of the float x > 0.  x = m * 4^j / 4^h with
\* m free of factors of four; sqrt(m) is computed to Precision+1 bits plus a
\* sticky half, which rounds as the exact root does.
FSqrt(x) ==
  LET t == TwoAdic(x.d)
      n0 == IF t % 2 = 1 THEN 2 * x.n ELSE x.n
      h == (IF t % 2 = 1 THEN t + 1 ELSE t) \div 2
      j == TwoAdic(n0) \div 2
      m == n0 \div Pow2(2 * j)
      s == ScaleFour(m, 1)
      q == ISqrtIn(s.k, Pow2(Precision), Pow2(Precision + 1))
      root == IF q * q = s.k THEN Rat(q, s.by) ELSE Rat(2 * q + 1, 2 * s.by)
      r == Fl(root)
  IN  Rat(r.n * Pow2(j), r.d * Pow2(h))

---------------------------------------------------------------------------
(* Program state: the script's module-level names *)

VARIABLES
  \* the sidebar inputs of one script run (lines 39-69)
  mean_points, std_dev_points, games_played, recent_avg_points, recent_games,
  opp_points_allowed_position, projected_minutes, avg_minutes, floor_percentage,
  line, odds, simulations,
  \* the results computed by lines 141-152
  posterior_mu, posterior_sigma, projected_points, simulated_points,
  final_points, floor_triggered, prob_over_line, ev, edge_percentage,
  bet_recommendation,
  \* the arguments np.random.normal was called with (line 106)
  mu, sigma,
  \* the statement the script is about to execute, and the exception that ended it
  pc, exception

inputs == <<mean_points, std_dev_points, games_played, recent_avg_points,
            recent_games, opp_points_allowed_position, projected_minutes,
            avg_minutes, floor_percentage, line, odds, simulations>>

vars == <<inputs, posterior_mu, posterior_sigma, projected_points,
          simulated_points, final_points, floor_triggered, prob_over_line, ev,
          edge_percentage, bet_recommendation, mu, sigma, pc, exception>>

---------------------------------------------------------------------------
(* The simulation functions, lines 98-138 *)

\* bayesian_update returning the posterior variance 1/precision in place of its
\* square root.
bayesian_update_variance(prior_mu, prior_sigma, recent_mu, recent_games_) ==
  IF games_played = None \/ games_played = Zero
  THEN [exc |-> "", mu |-> prior_mu, sigma |-> prior_sigma]
  ELSE LET sq == FMul(prior_sigma, prior_sigma)
       IN  IF sq = Zero
           THEN [exc |-> "ZeroDivisionError", mu |-> None, sigma |-> None]
           ELSE LET precision == FAdd(FDiv(One, sq), FDiv(recent_games_, sq))
                    weighted == FAdd(FDiv(prior_mu, sq),
                                     FDiv(FMul(recent_games_, recent_mu), sq))
                IN  [exc |-> "",
                     mu |-> FDiv(weighted, precision),
                     sigma |-> FDiv(One, precision)]

\* bayesian_update with the gate testing games_played for None only.
bayesian_update_none_only(prior_mu, prior_sigma, recent_mu, recent_games_) ==
  IF games_played = None
  THEN [exc |-> "", mu |-> prior_mu, sigma |-> prior_sigma]
  ELSE LET sq == FMul(prior_sigma, prior_sigma)
       IN  IF sq = Zero
           THEN [exc |-> "ZeroDivisionError", mu |-> None, sigma |-> None]
           ELSE LET precision == FAdd(FDiv(One, sq), FDiv(recent_games_, sq))
                    weighted == FAdd(FDiv(prior_mu, sq),
                                     FDiv(FMul(recent_games_, recent_mu), sq))
                IN  [exc |-> "",
                     mu |-> FDiv(weighted, precision),
                     sigma |-> FSqrt(FDiv(One, precision))]

\* Lines 98-103.  The gate reads the global games_played.  Dividing by
\* prior_sigma**2 == 0 raises ZeroDivisionError.
bayesian_update(prior_mu, prior_sigma, recent_mu, recent_games_) ==
  IF games_played = None \/ games_played = Zero
  THEN [exc |-> "", mu |-> prior_mu, sigma |-> prior_sigma]
  ELSE LET sq == FMul(prior_sigma, prior_sigma)
       IN  IF sq = Zero
           THEN [exc |-> "ZeroDivisionError", mu |-> None, sigma |-> None]
           ELSE LET precision == FAdd(FDiv(One, sq), FDiv(recent_games_, sq))
                    weighted == FAdd(FDiv(prior_mu, sq),
                                     FDiv(FMul(recent_games_, recent_mu), sq))
                IN  [exc |-> "",
                     mu |-> FDiv(weighted, precision),
                     sigma |-> FSqrt(FDiv(One, precision))]

\* The standard normal deviates a draw is built from (a finite sample of the
\* real line, symmetric about 0).
StdNormal == {Int2R(-1), Zero, One}

\* Lines 105-106: np.random.normal(mu, sigma, sims) raises ValueError when
\* sigma < 0 and otherwise returns sims draws, each mu + sigma * z.
\* The set of arrays one call can return.
monte_carlo_simulation(mu_, sigma_, sims) ==
  { [i \in 1..sims |-> FAdd(mu_, FMul(sigma_, z[i]))] : z \in [1..sims -> StdNormal] }

\* odds_decimal with the positive-odds formula used for every sign.
odds_decimal_unsigned(odds_) == FAdd(FDiv(odds_, Int2R(100)), One)

\* Line 109.
odds_decimal(odds_) ==
  IF RLt(odds_, Zero)
  THEN FAdd(One, FDiv(Int2R(100), RAbs(odds_)))
  ELSE FAdd(FDiv(odds_, Int2R(100)), One)

\* Lines 108-110.
calculate_ev(prob_over, odds_) ==
  FSub(FMul(prob_over, odds_decimal(odds_)), FSub(One, prob_over))

\* floor_value with the percentage inverted.
floor_value_inverted(opp_points_allowed, floor_percentage_) ==
  FMul(opp_points_allowed, FDiv(RSub(Int2R(100), floor_percentage_), Int2R(100)))

\* Line 113.
floor_value(opp_points_allowed, floor_percentage_) ==
  FMul(opp_points_allowed, FDiv(floor_percentage_, Int2R(100)))

\* floor_is_triggered with <= for <.
floor_is_triggered_le(projected_points_, floor_value_) ==
  RLe(projected_points_, floor_value_)

\* Line 114.
floor_is_triggered(projected_points_, floor_value_) ==
  RLt(projected_points_, floor_value_)

\* Lines 112-115: (max(projected_points, floor_value), floor_triggered).
apply_floor_adjustment(projected_points_, opp_points_allowed, floor_percentage_) ==
  LET fv == floor_value(opp_points_allowed, floor_percentage_)
  IN  [points |-> IF RGt(fv, projected_points_) THEN fv ELSE projected_points_,
       triggered |-> floor_is_triggered(projected_points_, fv)]

\* Lines 117-122.
calculate_projected_points(mean_points_, recent_avg_points_, opp_points_allowed, projected_minutes_, avg_minutes_) ==
  LET weighted_avg == FAdd(FMul(F(6, 10), mean_points_), FMul(F(4, 10), recent_avg_points_))
      opponent_adjustment == FMul(FSub(opp_points_allowed, mean_points_), F(25, 100))
      minutes_adjustment == IF RGt(avg_minutes_, Zero)
                            THEN FDiv(projected_minutes_, avg_minutes_)
                            ELSE One
  IN  FMul(FAdd(weighted_avg, opponent_adjustment), minutes_adjustment)

\* get_bet_recommendation with every threshold open.
get_bet_recommendation_open(edge_percentage_) ==
  IF RGt(edge_percentage_, Int2R(50)) THEN "Very Strong Over Bet"
  ELSE IF RGt(edge_percentage_, Int2R(31)) THEN "Strong Over Bet"
  ELSE IF RGt(edge_percentage_, Int2R(10)) THEN "Good Over Bet"
  ELSE IF RLt(edge_percentage_, Int2R(-50)) THEN "Very Strong Under Bet"
  ELSE IF RLt(edge_percentage_, Int2R(-31)) THEN "Strong Under Bet"
  ELSE IF RLt(edge_percentage_, Int2R(-10)) THEN "Good Under Bet"
  ELSE "No Strong Bet Recommendation"

\* Lines 124-138.
get_bet_recommendation(edge_percentage_) ==
  IF RGe(edge_percentage_, Int2R(50)) THEN "Very Strong Over Bet"
  ELSE IF RGe(edge_percentage_, Int2R(31)) THEN "Strong Over Bet"
  ELSE IF RGe(edge_percentage_, Int2R(10)) THEN "Good Over Bet"
  ELSE IF RLe(edge_percentage_, Int2R(-50)) THEN "Very Strong Under Bet"
  ELSE IF RLe(edge_percentage_, Int2R(-31)) THEN "Strong Under Bet"
  ELSE IF RLe(edge_percentage_, Int2R(-10)) THEN "Good Under Bet"
  ELSE "No Strong Bet Recommendation"

\* Line 149: np.mean(simulated_points > line), the fraction of draws over the line.
mean_over(simulated_points_, line_) ==
  FDiv(Int2R(Cardinality({i \in DOMAIN simulated_points_ : RGt(simulated_points_[i], line_)})),
       Int2R(Len(simulated_points_)))

\* edge_of without the subtraction of 50.
edge_of_uncentred(prob_over) == FMul(prob_over, Int2R(100))

\* Line 151.
edge_of(prob_over) == FSub(FMul(prob_over, Int2R(100)), Int2R(50))

---------------------------------------------------------------------------
(* One script run, lines 140-152, statement by statement *)

\* The state before line 141: the inputs are set, nothing is computed yet.
Fresh ==
  /\ posterior_mu = None /\ posterior_sigma = None /\ projected_points = None
  /\ simulated_points = <<>> /\ final_points = None /\ floor_triggered = FALSE
  /\ prob_over_line = None /\ ev = None /\ edge_percentage = None
  /\ bet_recommendation = "" /\ mu = None /\ sigma = None /\ exception = ""

\* Line 141.
BayesianUpdate ==
  /\ pc = "bayesian_update"
  /\ LET r == bayesian_update(mean_points, std_dev_points, recent_avg_points, recent_games)
     IN  /\ posterior_mu' = r.mu
         /\ posterior_sigma' = r.sigma
         /\ exception' = r.exc
         /\ pc' = IF r.exc = "" THEN "calculate_projected_points" ELSE "raised"
  /\ UNCHANGED <<inputs, projected_points, simulated_points, final_points,
                 floor_triggered, prob_over_line, ev, edge_percentage,
                 bet_recommendation, mu, sigma>>

\* Line 142.
CalculateProjectedPoints ==
  /\ pc = "calculate_projected_points"
  /\ projected_points' = calculate_projected_points(mean_points, recent_avg_points,
                           opp_points_allowed_position, projected_minutes, avg_minutes)
  /\ pc' = "monte_carlo_simulation"
  /\ UNCHANGED <<inputs, posterior_mu, posterior_sigma, simulated_points, final_points,
                 floor_triggered, prob_over_line, ev, edge_percentage,
                 bet_recommendation, mu, sigma, exception>>

\* Line 145: the sampler is called with the projection and the posterior sigma.
MonteCarloSimulation ==
  /\ pc = "monte_carlo_simulation"
  /\ mu' = projected_points
  /\ sigma' = posterior_sigma
  /\ IF RLt(posterior_sigma, Zero)
     THEN /\ simulated_points' = simulated_points
          /\ exception' = "ValueError"
          /\ pc' = "raised"
     ELSE /\ simulated_points' \in
               monte_carlo_simulation(projected_points, posterior_sigma, simulations)
          /\ exception' = exception
          /\ pc' = "apply_floor_adjustment"
  /\ UNCHANGED <<inputs, posterior_mu, posterior_sigma, projected_points, final_points,
                 floor_triggered, prob_over_line, ev, edge_percentage,
                 bet_recommendation>>

\* Line 147.
ApplyFloorAdjustment ==
  /\ pc = "apply_floor_adjustment"
  /\ LET r == apply_floor_adjustment(projected_points, opp_points_allowed_position,
                                     floor_percentage)
     IN  /\ final_points' = r.points
         /\ floor_triggered' = r.triggered
  /\ pc' = "prob_over_line"
  /\ UNCHANGED <<inputs, posterior_mu, posterior_sigma, projected_points,
                 simulated_points, prob_over_line, ev, edge_percentage,
                 bet_recommendation, mu, sigma, exception>>

\* Line 149.
ProbOverLine ==
  /\ pc = "prob_over_line"
  /\ prob_over_line' = mean_over(simulated_points, line)
  /\ pc' = "calculate_ev"
  /\ UNCHANGED <<inputs, posterior_mu, posterior_sigma, projected_points,
                 simulated_points, final_points, floor_triggered, ev,
                 edge_percentage, bet_recommendation, mu, sigma, exception>>

\* Line 150.
CalculateEV ==
  /\ pc = "calculate_ev"
  /\ ev' = calculate_ev(prob_over_line, odds)
  /\ pc' = "edge_percentage"
  /\ UNCHANGED <<inputs, posterior_mu, posterior_sigma, projected_points,
                 simulated_points, final_points, floor_triggered, prob_over_line,
                 edge_percentage, bet_recommendation, mu, sigma, exception>>

\* Line 151.
EdgePercentage ==
  /\ pc = "edge_percentage"
  /\ edge_percentage' = edge_of(prob_over_line)
  /\ pc' = "get_bet_recommendation"
  /\ UNCHANGED <<inputs, posterior_mu, posterior_sigma, projected_points,
                 simulated_points, final_points, floor_triggered, prob_over_line,
                 ev, bet_recommendation, mu, sigma, exception>>

\* Line 152; the results section (lines 154-175) follows and changes no state.
GetBetRecommendation ==
  /\ pc = "get_bet_recommendation"
  /\ bet_recommendation' = get_bet_recommendation(edge_percentage)
  /\ pc' = "results"
  /\ UNCHANGED <<inputs, posterior_mu, posterior_sigma, projected_points,
                 simulated_points, final_points, floor_triggered, prob_over_line,
                 ev, edge_percentage, mu, sigma, exception>>

Next ==
  \/ BayesianUpdate
  \/ CalculateProjectedPoints
  \/ MonteCarloSimulation
  \/ ApplyFloorAdjustment
  \/ ProbOverLine
  \/ CalculateEV
  \/ EdgePercentage
  \/ GetBetRecommendation

---------------------------------------------------------------------------
(* The whole pipeline over a grid of input records *)

MeanInputs == {F(20, 1)}
StdDevInputs == {F(-1, 1), Zero, One, F(3, 1)}
GamesPlayedInputs == {None, Zero, F(10, 1)}
RecentAvgInputs == {F(22, 1)}
RecentGamesInputs == {Zero, F(5, 1)}
OppInputs == {F(22, 1), F(60, 1)}
ProjectedMinutesInputs == {F(35, 1)}
AvgMinutesInputs == {Zero, F(34, 1)}
FloorPercentageInputs == {F(50, 1), F(100, 1)}
LineInputs == {F(41, 2)}
OddsInputs == {F(-110, 1), Zero, F(150, 1)}

Init ==
  /\ mean_points \in MeanInputs
  /\ std_dev_points \in StdDevInputs
  /\ games_played \in GamesPlayedInputs
  /\ recent_avg_points \in RecentAvgInputs
  /\ recent_games \in RecentGamesInputs
  /\ opp_points_allowed_position \in OppInputs
  /\ projected_minutes \in ProjectedMinutesInputs
  /\ avg_minutes \in AvgMinutesInputs
  /\ floor_percentage \in FloorPercentageInputs
  /\ line \in LineInputs
  /\ odds \in OddsInputs
  /\ simulations \in 1..MaxSims
  /\ pc = "bayesian_update"
  /\ Fresh

Spec == Init /\ [][Next]_vars

---------------------------------------------------------------------------
(* bayesian_update and the sampler call over a grid of priors *)

BayesMeanInputs == {F(7, 1), F(20, 1), F(37, 2)}
BayesStdDevInputs == {F(1, 2), One, F(3, 2), F(3, 1), F(5, 1), F(7, 1)}
BayesRecentGamesInputs == {Zero, One, F(5, 1)}

InitBayes ==
  /\ mean_points \in BayesMeanInputs
  /\ std_dev_points \in BayesStdDevInputs
  /\ games_played \in GamesPlayedInputs
  /\ recent_avg_points \in RecentAvgInputs
  /\ recent_games \in BayesRecentGamesInputs
  /\ opp_points_allowed_position = F(22, 1)
  /\ projected_minutes = F(35, 1)
  /\ avg_minutes = F(34, 1)
  /\ floor_percentage = F(50, 1)
  /\ line = F(41, 2)
  /\ odds = F(-110, 1)
  /\ simulations = 1
  /\ pc = "bayesian_update"
  /\ Fresh

NextBayes == BayesianUpdate \/ CalculateProjectedPoints \/ MonteCarloSimulation

SpecBayes == InitBayes /\ [][NextBayes]_vars

---------------------------------------------------------------------------
(* apply_floor_adjustment over a grid of projections, allowances and percentages *)
\* A call of apply_floor_adjustment: its three arguments are drawn, every other
\* name is left unspecified (None).

FloorProjectedInputs == {F(-10, 1), Zero, F(11, 1), F(20, 1), F(87, 4), F(30, 1)}
FloorOppInputs == {F(-22, 1), F(-4, 1), Zero, F(22, 1), F(45, 2), F(60, 1)}
\* The slider's integers 0..100 (line 63).
FloorPercentages == {Int2R(0), Int2R(10), Int2R(25), Int2R(50), Int2R(75), Int2R(100)}

InitFloor ==
  /\ mean_points = None /\ std_dev_points = None /\ games_played = None
  /\ recent_avg_points = None /\ recent_games = None
  /\ opp_points_allowed_position \in FloorOppInputs
  /\ projected_minutes = None /\ avg_minutes = None
  /\ floor_percentage \in FloorPercentages
  /\ line = None /\ odds = None /\ simulations = None
  /\ posterior_mu = None /\ posterior_sigma = None
  /\ projected_points \in FloorProjectedInputs
  /\ simulated_points = <<>> /\ final_points = None /\ floor_triggered = FALSE
  /\ prob_over_line = None /\ ev = None /\ edge_percentage = None
  /\ bet_recommendation = "" /\ mu = None /\ sigma = None /\ exception = ""
  /\ pc = "apply_floor_adjustment"

NextFloor == ApplyFloorAdjustment

SpecFloor == InitFloor /\ [][NextFloor]_vars

---------------------------------------------------------------------------
(* calculate_ev over a grid of probabilities and odds *)
\* A call of calculate_ev: its two arguments are drawn, every other name is left
\* unspecified (None).

\* count/len for a few sample sizes.
EVProbInputs == { F(k, 1) : k \in 0..1 } \cup { F(k, 2) : k \in 0..2 }
                  \cup { F(k, 3) : k \in 0..3 } \cup { F(k, 4) : k \in 0..4 }
                  \cup { F(k, 10) : k \in 0..10 }
EVOddsInputs == { Int2R(k) : k \in {-300, -200, -150, -110, -105, -100, 0,
                                    100, 105, 110, 150, 200, 300} }

InitEV ==
  /\ mean_points = None /\ std_dev_points = None /\ games_played = None
  /\ recent_avg_points = None /\ recent_games = None
  /\ opp_points_allowed_position = None /\ projected_minutes = None
  /\ avg_minutes = None /\ floor_percentage = None /\ line = None
  /\ odds \in EVOddsInputs
  /\ simulations = None
  /\ posterior_mu = None /\ posterior_sigma = None /\ projected_points = None
  /\ simulated_points = <<>> /\ final_points = None /\ floor_triggered = FALSE
  /\ prob_over_line \in EVProbInputs
  /\ ev = None /\ edge_percentage = None
  /\ bet_recommendation = "" /\ mu = None /\ sigma = None /\ exception = ""
  /\ pc = "calculate_ev"

NextEV == CalculateEV

SpecEV == InitEV /\ [][NextEV]_vars

---------------------------------------------------------------------------
(* get_bet_recommendation over every hundredth of [-50, 50] *)
\* A call of get_bet_recommendation: its argument is drawn, every other name is
\* left unspecified (None).

\* The edge in hundredths of a percentage point: count/len*100 - 50 takes every
\* such value for len = 10000.  The function only compares its argument, so the
\* edge is given as the exact number.
EdgeInputs == { Rat(k, 100) : k \in -5000..5000 }

InitRecommendation ==
  /\ mean_points = None /\ std_dev_points = None /\ games_played = None
  /\ recent_avg_points = None /\ recent_games = None
  /\ opp_points_allowed_position = None /\ projected_minutes = None
  /\ avg_minutes = None /\ floor_percentage = None /\ line = None
  /\ odds = None /\ simulations = None
  /\ posterior_mu = None /\ posterior_sigma = None /\ projected_points = None
  /\ simulated_points = <<>> /\ final_points = None /\ floor_triggered = FALSE
  /\ prob_over_line = None /\ ev = None
  /\ edge_percentage \in EdgeInputs
  /\ bet_recommendation = "" /\ mu = None /\ sigma = None /\ exception = ""
  /\ pc = "get_bet_recommendation"

NextRecommendation == GetBetRecommendation

SpecRecommendation == InitRecommendation /\ [][NextRecommendation]_vars

---------------------------------------------------------------------------
(* Properties *)

\* The sampler has returned its draws.
AfterSimulation == pc \in {"apply_floor_adjustment", "prob_over_line", "calculate_ev",
                           "edge_percentage", "get_bet_recommendation", "results"}

\* C1 (as claimed; refuted under Spec): once the draws exist, the mean the
\* sampler was called with is the floored projection
\* max(projected_points, floor value), so a triggered floor moves the samples.
C1_SamplerMeanIsFlooredProjection ==
  AfterSimulation =>
    mu = apply_floor_adjustment(projected_points, opp_points_allowed_position,
                                floor_percentage).points

\* C2 (SpecRecommendation): every edge in [-50, 50], in hundredths, gets the
\* tier of the closed thresholds: >= 50 very strong over, [31, 50) strong over,
\* [10, 31) good over, <= -50 very strong under, (-50, -31] strong under,
\* (-31, -10] good under, (-10, 10) none.
C2_RecommendationTiers ==
  pc = "results" =>
    LET k == (edge_percentage.n * 100) \div edge_percentage.d
    IN  /\ bet_recommendation =
             (CASE k >= 5000 -> "Very Strong Over Bet"
                [] 3100 <= k /\ k < 5000 -> "Strong Over Bet"
                [] 1000 <= k /\ k < 3100 -> "Good Over Bet"
                [] k <= -5000 -> "Very Strong Under Bet"
                [] -5000 < k /\ k <= -3100 -> "Strong Under Bet"
                [] -3100 < k /\ k <= -1000 -> "Good Under Bet"
                [] -1000 < k /\ k < 1000 -> "No Strong Bet Recommendation")
        /\ (k = 5000 => bet_recommendation = "Very Strong Over Bet")
        /\ (k = 4999 => bet_recommendation = "Strong Over Bet")
        /\ (k = -1000 => bet_recommendation = "Good Under Bet")
        /\ (k = 0 => bet_recommendation = "No Strong Bet Recommendation")

\* C2 witness: the edge 49.99 has been classified, as a strong over bet.
C2_Witness ==
  /\ pc = "results"
  /\ edge_percentage = Rat(4999, 100)
  /\ bet_recommendation = "Strong Over Bet"

\* C3 (as claimed; refuted under SpecBayes): whatever games_played is, with
\* recent_games > 0 and a positive prior standard deviation the sigma passed to
\* the sampler is strictly smaller than the prior's.
C3_SigmaShrinksWhateverGamesPlayed ==
  (AfterSimulation /\ RGt(recent_games, Zero) /\ RGt(std_dev_points, Zero))
    => RLt(sigma, std_dev_points)

\* C3 (amended, SpecBayes): when games_played is neither None nor 0, with
\* recent_games > 0 and a positive prior standard deviation, the sigma passed to
\* the sampler is the posterior sigma and is strictly smaller than the prior's.
C3_SigmaShrinksWhenUpdated ==
  (AfterSimulation /\ games_played # None /\ games_played # Zero
     /\ RGt(recent_games, Zero) /\ RGt(std_dev_points, Zero))
    => /\ sigma = posterior_sigma
       /\ RLt(sigma, std_dev_points)

\* C3 witness: an update with one recent game has run and the sampler was
\* called with a smaller sigma than the prior 3.
C3_Witness ==
  /\ pc = "apply_floor_adjustment"
  /\ games_played = F(10, 1)
  /\ recent_games = One
  /\ std_dev_points = F(3, 1)
  /\ RLt(sigma, std_dev_points)
  /\ RGt(sigma, Zero)

\* C4 (as claimed; refuted under SpecBayes): when games_played is None or 0, or
\* recent_games is 0, bayesian_update returns exactly the prior.
C4_PriorReturnedWhenNothingToUpdate ==
  (pc # "bayesian_update" /\ RGt(std_dev_points, Zero)
     /\ (games_played = None \/ games_played = Zero \/ recent_games = Zero))
    => /\ posterior_mu = mean_points
       /\ posterior_sigma = std_dev_points

\* C4 (amended, SpecBayes): when games_played is None or 0, bayesian_update
\* returns exactly the prior, whatever recent_games is.
C4_PriorReturnedWhenGated ==
  (pc # "bayesian_update" /\ RGt(std_dev_points, Zero)
     /\ (games_played = None \/ games_played = Zero))
    => /\ posterior_mu = mean_points
       /\ posterior_sigma = std_dev_points

\* C4 witness: with games_played = 0 and five recent games the update has
\* returned the prior.
C4_Witness ==
  /\ pc = "calculate_projected_points"
  /\ games_played = Zero
  /\ recent_games = F(5, 1)
  /\ posterior_mu = mean_points
  /\ posterior_sigma = std_dev_points

\* C5 (as claimed; refuted under Spec): a prior standard deviation <= 0 ends the
\* run in InvalidVariance: no sigma <= 0 reaches the sampler and neither samples
\* nor an analysis are produced.
C5_NonPositiveStdDevRejected ==
  RLe(std_dev_points, Zero) =>
    /\ ~AfterSimulation
    /\ (sigma # None => RGt(sigma, Zero))
    /\ (pc = "raised" => exception = "InvalidVariance")

\* C6 (as claimed; refuted under SpecEV): with odds = 0 the EV computation ends
\* in InvalidOdds and returns no expected value.
C6_ZeroOddsRejected ==
  (odds = Zero /\ pc # "calculate_ev") =>
    /\ exception = "InvalidOdds"
    /\ ev = None

\* C7 (as claimed; refuted under SpecFloor): for any opponent allowance, a
\* smaller floor percentage never gives a larger floored value.
C7_FloorMonotonicAnySign ==
  pc = "prob_over_line" =>
    \A p1 \in FloorPercentages :
      RLe(p1, floor_percentage) =>
        RLe(apply_floor_adjustment(projected_points, opp_points_allowed_position,
                                   p1).points,
            final_points)

\* C7 (amended, SpecFloor): for an opponent allowance >= 0, a smaller floor
\* percentage never gives a larger floored value.
C7_FloorMonotonicNonNegative ==
  (pc = "prob_over_line" /\ RGe(opp_points_allowed_position, Zero)) =>
    \A p1 \in FloorPercentages :
      RLe(p1, floor_percentage) =>
        RLe(apply_floor_adjustment(projected_points, opp_points_allowed_position,
                                   p1).points,
            final_points)

\* C7 witness: the floor was applied for a positive allowance, and a smaller
\* percentage gives a strictly smaller floored value.
C7_Witness ==
  /\ pc = "prob_over_line"
  /\ RGt(opp_points_allowed_position, Zero)
  /\ floor_triggered
  /\ \E p1 \in FloorPercentages :
       /\ RLt(p1, floor_percentage)
       /\ RLt(apply_floor_adjustment(projected_points, opp_points_allowed_position,
                                     p1).points,
              final_points)

\* The number of draws over the line.
NumOver == Cardinality({i \in DOMAIN simulated_points : RGt(simulated_points[i], line)})

\* C8 (Spec): once computed, prob_over_line is count(samples > line)/len(samples)
\* and lies in [0, 1], and edge_percentage lies in [-50, 50].
C8_ProbabilityAndEdgeInRange ==
  /\ prob_over_line # None =>
       /\ prob_over_line = Fl(Rat(NumOver, Len(simulated_points)))
       /\ RLe(Zero, prob_over_line) /\ RLe(prob_over_line, One)
       /\ (prob_over_line = Zero <=> NumOver = 0)
       /\ (prob_over_line = One <=> NumOver = Len(simulated_points))
  /\ edge_percentage # None =>
       /\ RLe(Int2R(-50), edge_percentage) /\ RLe(edge_percentage, Int2R(50))
       /\ (edge_percentage = Int2R(50) <=> prob_over_line = One)
       /\ (edge_percentage = Int2R(-50) <=> prob_over_line = Zero)

\* C8 witness: a finished run in which some draws, not all, are over the line.
C8_Witness ==
  /\ pc = "results"
  /\ RLt(Zero, prob_over_line) /\ RLt(prob_over_line, One)
  /\ RLt(Int2R(-50), edge_percentage) /\ RLt(edge_percentage, Int2R(50))

\* C9 (SpecEV): for nonzero odds, ev = prob*m - (1 - prob) with
\* m = 1 + 100/|odds| for odds < 0 and m = 1 + odds/100 for odds > 0, each
\* operation rounded once as a float operation and nothing else rounded: where
\* every intermediate value is a float, ev is the exact value.  odds = 150
\* gives m = 2.5.
C9_ExpectedValueFormula ==
  (pc = "edge_percentage" /\ odds # Zero) =>
    LET a == Abs(odds.n)
        m == IF odds.n < 0
             THEN Fl(RAdd(One, Fl(Rat(100 * odds.d, a))))
             ELSE Fl(RAdd(One, Fl(Rat(odds.n, 100 * odds.d))))
        mx == IF odds.n < 0
              THEN Rat(a + 100 * odds.d, a)
              ELSE Rat(100 * odds.d + odds.n, 100 * odds.d)
        exact == RSub(RMul(prob_over_line, mx), RSub(One, prob_over_line))
    IN  /\ ev = Fl(RSub(Fl(RMul(prob_over_line, m)), Fl(RSub(One, prob_over_line))))
        /\ (IsFloat(mx) /\ IsFloat(RMul(prob_over_line, mx))
              /\ IsFloat(RSub(One, prob_over_line)) /\ IsFloat(exact))
             => ev = exact
        /\ (odds = Int2R(150) => odds_decimal(odds) = Rat(5, 2))
        /\ (odds = Int2R(-100) => odds_decimal(odds) = Int2R(2))
        /\ (odds = Int2R(-110) =>
              odds_decimal(odds) = Fl(RAdd(One, Fl(Rat(100, 110)))))

\* C9 witness: odds 150 and probability 1/2 have given ev = 0.5*2.5 - 0.5 = 0.75.
C9_Witness ==
  /\ pc = "edge_percentage"
  /\ odds = Int2R(150)
  /\ prob_over_line = Rat(1, 2)
  /\ ev = Rat(3, 4)

\* C10 (SpecFloor): final_points = max(projected_points, floor value) with
\* floor value = opp_points_allowed * (floor_percentage / 100), so it is never
\* below the floor value, and floor_triggered holds exactly when
\* projected_points < floor value (not when they are equal).
C10_FloorContract ==
  pc = "prob_over_line" =>
    LET fv == Fl(RMul(opp_points_allowed_position,
                      Fl(RDiv(floor_percentage, Int2R(100)))))
    IN  /\ RGe(final_points, fv)
        /\ RGe(final_points, projected_points)
        /\ final_points \in {projected_points, fv}
        /\ floor_triggered <=> RLt(projected_points, fv)
        /\ (floor_percentage = Int2R(50) => RAdd(fv, fv) = opp_points_allowed_position)
        /\ (floor_percentage = Int2R(100) => fv = opp_points_allowed_position)

\* C10 witness: projection 11 against allowance 22 at 50%: the floor value
\* equals the projection, which is kept, and the floor is not triggered.
C10_Witness ==
  /\ pc = "prob_over_line"
  /\ projected_points = F(11, 1)
  /\ opp_points_allowed_position = F(22, 1)
  /\ floor_percentage = Int2R(50)
  /\ final_points = F(11, 1)
  /\ ~floor_triggered

====
